---- MODULE Spec2Model ----
(***************************************************************************)
(* A model of the recipes_book backend (Django / Django REST framework):   *)
(* the relational tables of api/models.py, the recipe serializer's         *)
(* validation and its transactional create/update, the favorite,           *)
(* shopping-cart and subscription toggles, the shopping-list aggregation   *)
(* and the cascading deletes.                                              *)
(*                                                                         *)
(* Tables that carry a uniqueness constraint are modelled as bags of rows  *)
(* (a row may in principle be stored more than once), so that uniqueness   *)
(* is something the constraints and the handlers have to establish.        *)
(***************************************************************************)
EXTENDS Integers, Sequences, FiniteSets, Bags, TLC

\* ---------------------------------------------------------------- bounds
NRecipes == 2
MaxAmount == 2
MaxCookingTime == 2

\* program constants
MIN_COOKING_TIME == 1
MIN_AMOUNT == 1

\* primary keys
UserIds == {1, 2, 3}
TagIds == {1, 2}
IngredientIds == {1, 2}
RecipeIds == 1..NRecipes
\* the primary keys the recipe sequence hands out to new rows
FreshRecipeIds == {1}
NoUser == 0
NoRecipe == CHOOSE n \in 0..NRecipes : n \notin RecipeIds

\* the requests in flight (one worker per request)
Procs == {1, 2}

VARIABLES
    users,              \* CustomUser rows (their primary keys)
    tags,               \* Tag rows (their primary keys)
    ingredients,        \* Ingredient rows (their primary keys)
    recipes,            \* Recipe rows: primary key -> [author, cooking_time]
    recipe_tags,        \* rows of the Recipe.tags many-to-many table
    ingredient_recipe,  \* bag of IngredientRecipe rows
    favorite,           \* bag of Favorite rows
    shopping_cart,      \* bag of ShoppingCart rows
    subscribe,          \* bag of Subscribe rows
    tx,                 \* the recipe write transaction in progress
    reqs,               \* the toggle requests in flight, per worker
    resp,               \* the last response sent
    tag_table,          \* the columns of the Tag rows: pk -> [name, slug]
    ingredient_table,   \* the columns of the Ingredient rows:
                        \* pk -> [name, measurement_unit]
    load                \* the management command in progress

vars == <<users, tags, ingredients, recipes, recipe_tags, ingredient_recipe,
          favorite, shopping_cart, subscribe, tx, reqs, resp, tag_table,
          ingredient_table, load>>

\* ------------------------------------------------------------- utilities
SeqsUpTo(S, n) == UNION {[1..k -> S] : k \in 0..n}

Range(s) == {s[i] : i \in DOMAIN s}

\* number of stored copies of row in a table
Count(table, row) == CopiesIn(row, table)

\* the table with one more copy of row
Insert(table, row) == table (+) SetToBag({row})

\* the table with only its rows of kept left (a DELETE of the others)
Keep(table, kept) == [row \in kept |-> table[row]]

\* a response: the endpoint and the method of the request, the status code,
\* the messages of the error raised, the primary key in the URL, the
\* requesting user and the lines of a downloaded file
Response(op, method, status, detail, target, user) ==
    [op |-> op, method |-> method, status |-> status, detail |-> detail,
     target |-> target, user |-> user, body |-> <<>>]

\* no response has been sent to the request being handled
NoResponse == Response("none", "none", 0, {}, 0, 0)

IdleReq == [pc |-> "idle"]

\* no recipe write is in progress
IdleTx == [pc |-> "idle"]

\* ------------------------------------------- recipe payloads (request data)
\* lists of at most two items
TagLists == SeqsUpTo(TagIds, 2)

IngredientItems == [id : IngredientIds, amount : 0..MaxAmount]

IngredientLists == SeqsUpTo(IngredientItems, 2)

\* image: whether the payload carries a (non-null) image
Payloads ==
    [tags : TagLists, image : BOOLEAN, cooking_time : 0..MaxCookingTime,
     ingredients : IngredientLists]

\* ------------------------------------------------ RecipeSerializer: validation
\* tags = PrimaryKeyRelatedField(queryset=Tag.objects.all(), many=True):
\* every primary key of the list names a stored tag
tags_field(value) == \A i \in DOMAIN value : value[i] \in tags

\* the loop of validate_tags, from position i with the keys seen so far
RECURSIVE validate_tags_loop(_, _, _)
validate_tags_loop(tags_data, i, existing_datas) ==
    IF i > Len(tags_data) THEN "ok"
    ELSE IF tags_data[i] \in existing_datas THEN "duplicate"
    ELSE validate_tags_loop(tags_data, i + 1,
                            existing_datas \cup {tags_data[i]})

\* validate_tags without the duplicate loop
validate_tags_no_duplicate_check(value) ==
    IF value = <<>> THEN "empty" ELSE "ok"

validate_tags(value) ==
    IF value = <<>> THEN "empty" ELSE validate_tags_loop(value, 1, {})

validate_image(present) == IF present THEN "ok" ELSE "empty"

validate_cooking_time(value) ==
    IF value < MIN_COOKING_TIME THEN "too_small" ELSE "ok"

\* IngredientRecipeSerializer, applied to each item of the list: the id is a
\* PrimaryKeyRelatedField over Ingredient.objects.all(), the amount an
\* IntegerField with MinValueValidator(1)
ingredients_field(value) ==
    \A i \in DOMAIN value :
        /\ value[i].id \in ingredients
        /\ value[i].amount >= MIN_AMOUNT

\* the loop of validate_ingredients, from position i
RECURSIVE validate_ingredients_loop(_, _, _)
validate_ingredients_loop(ingredients_data, i, existing_ingredients_id) ==
    IF i > Len(ingredients_data) THEN "ok"
    ELSE LET ingredient_id == ingredients_data[i].id
             amount == ingredients_data[i].amount
         IN  IF ingredient_id \notin ingredients THEN "does_not_exist"
             ELSE IF ingredient_id \in existing_ingredients_id THEN "duplicate"
             ELSE IF amount < 1 THEN "amount_too_small"
             ELSE validate_ingredients_loop(
                      ingredients_data, i + 1,
                      existing_ingredients_id \cup {ingredient_id})

validate_ingredients(value) ==
    IF value = <<>> THEN "empty" ELSE validate_ingredients_loop(value, 1, {})

\* is_valid: no field of the payload fails validation (a partial update
\* validates the fields the payload carries)
is_valid(data) ==
    /\ "tags" \in DOMAIN data
          => /\ tags_field(data.tags)
             /\ validate_tags(data.tags) = "ok"
    /\ "image" \in DOMAIN data => validate_image(data.image) = "ok"
    /\ "cooking_time" \in DOMAIN data
          => validate_cooking_time(data.cooking_time) = "ok"
    /\ "ingredients" \in DOMAIN data
          => /\ ingredients_field(data.ingredients)
             /\ validate_ingredients(data.ingredients) = "ok"

\* ------------------------------------------- recipe tables and their writes
\* the three tables a recipe write touches, as the database has them committed
Committed ==
    [recipes |-> recipes, recipe_tags |-> recipe_tags,
     ingredient_recipe |-> ingredient_recipe]

Store(view) ==
    /\ recipes' = view.recipes
    /\ recipe_tags' = view.recipe_tags
    /\ ingredient_recipe' = view.ingredient_recipe

\* the tags and the join rows of recipe r in a view
TagsOf(view, r) == {x[2] : x \in {y \in view.recipe_tags : y[1] = r}}

JoinRowsOf(view, r) ==
    Keep(view.ingredient_recipe,
         {row \in BagToSet(view.ingredient_recipe) : row.recipe = r})

\* the primary key given to a new recipe row
new_recipe_id(view) ==
    CHOOSE id \in FreshRecipeIds \ DOMAIN view.recipes :
        \A other \in FreshRecipeIds \ DOMAIN view.recipes : id <= other

\* Recipe.objects.create(author=author_data, **validated_data)
recipe_objects_create(view, id, author, data) ==
    [view EXCEPT !.recipes =
        [r \in DOMAIN @ \cup {id} |->
            IF r = id
            THEN [author |-> author, cooking_time |-> data.cooking_time]
            ELSE @[r]]]

\* super().update(instance, validated_data): the plain fields are assigned
\* and the row is saved
model_serializer_update(view, id, data) ==
    IF "cooking_time" \in DOMAIN data
    THEN [view EXCEPT !.recipes[id].cooking_time = data.cooking_time]
    ELSE view

\* recipe.tags.clear()
tags_clear(view, r) ==
    [view EXCEPT !.recipe_tags = {x \in @ : x[1] # r}]

\* recipe.tags.set(tags_data): rows of r for other tags are removed, rows
\* for the tags of the list that r lacks are added
tags_set(view, r, tags_data) ==
    [view EXCEPT !.recipe_tags =
        {x \in @ : x[1] # r \/ x[2] \in Range(tags_data)}
        \cup {<<r, tags_data[i]>> : i \in DOMAIN tags_data}]

\* update without the ingredients.clear() statement
ingredients_clear_skipped(view, r) == view

\* recipe.ingredients.clear(): the join rows of r are deleted
ingredients_clear(view, r) ==
    [view EXCEPT !.ingredient_recipe =
        Keep(@, {row \in BagToSet(@) : row.recipe # r})]

\* UniqueConstraint(fields=['recipe', 'ingredient']): may row be inserted?
unique_ingredientrecipe(table, row) ==
    \A x \in BagToSet(table) :
        ~(x.recipe = row.recipe /\ x.ingredient = row.ingredient)

\* IngredientRecipe.objects.bulk_create(rows), from position i: the rows are
\* inserted in order; a row that breaks the constraint raises IntegrityError
RECURSIVE bulk_create(_, _, _)
bulk_create(table, rows, i) ==
    IF i > Len(rows) THEN [ok |-> TRUE, table |-> table]
    ELSE IF ~unique_ingredientrecipe(table, rows[i])
         THEN [ok |-> FALSE, table |-> table]
         ELSE bulk_create(Insert(table, rows[i]), rows, i + 1)

\* ingredient_recipe_list(ingredients_data, recipe): one IngredientRecipe
\* object per item of the validated list, then bulk_create
ingredient_recipe_list(view, ingredients_data, r) ==
    LET rows == [i \in DOMAIN ingredients_data |->
                    [recipe |-> r,
                     ingredient |-> ingredients_data[i].id,
                     amount |-> ingredients_data[i].amount]]
        done == bulk_create(view.ingredient_recipe, rows, 1)
    IN  [ok |-> done.ok,
         view |-> [view EXCEPT !.ingredient_recipe = done.table]]

\* create and update without the decorator: every statement is committed
\* as it runs
NotAtomic(view, commits) == view

\* @transaction.atomic on create and on update: what the database shows as
\* committed after a statement of the transaction has produced view; only
\* the statement that ends the decorated function commits
Atomic(view, commits) == IF commits THEN view ELSE Committed

\* ----------------------------------------------- recipe create and update
\* --------------------------------------------------- the reference data
\* the columns of the seeded Ingredient and Tag rows
ingredient_name(i) == IF i = 1 THEN "salt" ELSE "pepper"

measurement_unit(i) == IF i = 1 THEN "g" ELSE "pinch"

tag_name(i) == IF i = 1 THEN "breakfast" ELSE "dinner"

tag_slug(i) == IF i = 1 THEN "breakfast" ELSE "dinner"

\* no management command is running and none has run
IdleLoad ==
    [pc |-> "idle", kind |-> "none", data |-> <<>>, i |-> 0, again |-> FALSE,
     runs |-> 0]

\* the columns of the stored tags and ingredients; no command is running
ReferenceInit ==
    /\ tag_table = [i \in tags |-> [name |-> tag_name(i),
                                     slug |-> tag_slug(i)]]
    /\ ingredient_table =
          [i \in ingredients |->
              [name |-> ingredient_name(i),
               measurement_unit |-> measurement_unit(i)]]
    /\ load = IdleLoad

Reference == <<tag_table, ingredient_table, load>>

OtherTables == <<users, tags, ingredients, favorite, shopping_cart, subscribe,
                 reqs, Reference>>

\* a recipe write request arrives: POST /recipes/ from an authenticated
\* user, or PUT /recipes/{pk}/
RecipeCreateRequest(user, data) ==
    /\ tx.pc = "idle"
    /\ user \in users
    /\ FreshRecipeIds \ DOMAIN recipes # {}
    /\ tx' = [pc |-> "received", op |-> "recipe_create", method |-> "POST",
              recipe |-> NoRecipe, author |-> user, data |-> data]
    /\ resp' = NoResponse
    /\ UNCHANGED <<recipes, recipe_tags, ingredient_recipe, OtherTables>>

RecipeUpdateRequest(pk, data) ==
    /\ tx.pc = "idle"
    /\ tx' = [pc |-> "received", op |-> "recipe_update", method |-> "PUT",
              recipe |-> pk, author |-> NoUser, data |-> data]
    /\ resp' = NoResponse
    /\ UNCHANGED <<recipes, recipe_tags, ingredient_recipe, OtherTables>>

\* the request is rejected without a write
Reject(status, detail) ==
    /\ resp' = Response(tx.op, tx.method, status, detail, tx.recipe,
                         tx.author)
    /\ tx' = IdleTx
    /\ UNCHANGED <<recipes, recipe_tags, ingredient_recipe, OtherTables>>

\* the request is accepted: the decorated function is entered with the
\* validated data, the transaction begins at statement pc for recipe r
Begin(pc, r) ==
    /\ tx' = [pc |-> pc, op |-> tx.op, method |-> tx.method, recipe |-> r,
              author |-> tx.author, data |-> tx.data, view |-> Committed,
              before |-> Committed]
    /\ UNCHANGED <<recipes, recipe_tags, ingredient_recipe, resp,
                   OtherTables>>

\* POST /recipes/: is_valid(raise_exception=True), then
\* RecipeSerializer.create
RecipeCreate ==
    /\ tx.pc = "received"
    /\ tx.op = "recipe_create"
    /\ IF ~is_valid(tx.data)
       THEN Reject(400, {"validation_error"})
       ELSE Begin("create_row", new_recipe_id(Committed))

\* PUT /recipes/{pk}/: get_object, is_valid(raise_exception=True), then
\* RecipeSerializer.update
RecipeUpdate ==
    /\ tx.pc = "received"
    /\ tx.op = "recipe_update"
    /\ IF tx.recipe \notin DOMAIN recipes
       THEN Reject(404, {"not_found"})
       ELSE IF ~is_valid(tx.data)
       THEN Reject(400, {"validation_error"})
       ELSE Begin("update_row", tx.recipe)

\* a statement of the transaction that does not end it
TxStatement(view, next) ==
    /\ tx' = [tx EXCEPT !.view = view, !.pc = next]
    /\ Store(Atomic(view, FALSE))
    /\ UNCHANGED <<resp, OtherTables>>

\* create: recipe = Recipe.objects.create(author=author_data, ...)
CreateRow ==
    /\ tx.pc = "create_row"
    /\ TxStatement(recipe_objects_create(tx.view, tx.recipe, tx.author,
                                         tx.data),
                   "tags_set")

\* update: updated_recipe = super().update(instance, validated_data)
UpdateRow ==
    /\ tx.pc = "update_row"
    /\ TxStatement(model_serializer_update(tx.view, tx.recipe, tx.data),
                   "tags_clear")

\* update: updated_recipe.tags.clear()
TagsClear ==
    /\ tx.pc = "tags_clear"
    /\ TxStatement(tags_clear(tx.view, tx.recipe), "tags_set")

\* create and update: recipe.tags.set(tags_data)
TagsSet ==
    /\ tx.pc = "tags_set"
    /\ TxStatement(tags_set(tx.view, tx.recipe, tx.data.tags),
                   IF tx.op = "recipe_create" THEN "bulk_create"
                   ELSE "ingredients_clear")

\* update: updated_recipe.ingredients.clear()
IngredientsClear ==
    /\ tx.pc = "ingredients_clear"
    /\ TxStatement(ingredients_clear(tx.view, tx.recipe), "bulk_create")

\* create and update: self.ingredient_recipe_list(ingredients_data, recipe)
\* and the return, which commits; an IntegrityError rolls back instead
BulkCreate ==
    /\ tx.pc = "bulk_create"
    /\ LET done == ingredient_recipe_list(tx.view, tx.data.ingredients,
                                          tx.recipe)
       IN  IF done.ok
           THEN /\ Store(Atomic(done.view, TRUE))
                /\ resp' = Response(tx.op, tx.method,
                                    IF tx.op = "recipe_create" THEN 201
                                    ELSE 200,
                                    {}, tx.recipe, tx.author)
           ELSE /\ UNCHANGED <<recipes, recipe_tags, ingredient_recipe>>
                /\ resp' = Response(tx.op, tx.method, 500, {"IntegrityError"},
                                    tx.recipe, tx.author)
    /\ tx' = IdleTx
    /\ UNCHANGED OtherTables

\* a statement of the transaction raises (a storage error): the exception
\* leaves the decorated function, the transaction is rolled back
TxFail ==
    /\ tx.pc \notin {"idle", "received"}
    /\ tx' = IdleTx
    /\ resp' = Response(tx.op, tx.method, 500, {"storage_error"}, tx.recipe,
                         tx.author)
    /\ UNCHANGED <<recipes, recipe_tags, ingredient_recipe, OtherTables>>

\* ------------------------------------------------------ initial database
InitRecipe ==
    /\ users = {1}
    /\ tags = TagIds
    /\ ingredients \in {IngredientIds, {1}}
    /\ recipes = <<>>
    /\ recipe_tags = {}
    /\ ingredient_recipe = EmptyBag
    /\ favorite = EmptyBag
    /\ shopping_cart = EmptyBag
    /\ subscribe = EmptyBag
    /\ tx = IdleTx
    /\ reqs = [p \in Procs |-> IdleReq]
    /\ resp = NoResponse
    /\ ReferenceInit

NextRecipe ==
    \/ \E user \in users :
          \E data \in IF tx.pc = "idle" THEN Payloads ELSE {} :
              RecipeCreateRequest(user, data)
    \/ \E pk \in RecipeIds :
          \E data \in IF tx.pc = "idle" THEN Payloads ELSE {} :
              RecipeUpdateRequest(pk, data)
    \/ RecipeCreate
    \/ RecipeUpdate
    \/ CreateRow
    \/ UpdateRow
    \/ TagsClear
    \/ TagsSet
    \/ IngredientsClear
    \/ BulkCreate
    \/ TxFail

SpecRecipe == InitRecipe /\ [][NextRecipe]_vars

\* ------------------------------------------------ claims on recipe writes
RecipeTables == <<recipes, recipe_tags, ingredient_recipe>>

InTransaction == tx.pc \notin {"idle", "received"}

HasDuplicate(s) == \E i, j \in DOMAIN s : i < j /\ s[i] = s[j]

\* the payload breaks one of the validation rules
BreaksRule(data) ==
    \/ data.tags = <<>>
    \/ HasDuplicate(data.tags)
    \/ data.cooking_time < 1
    \/ data.ingredients = <<>>
    \/ HasDuplicate([i \in DOMAIN data.ingredients |-> data.ingredients[i].id])
    \/ \E i \in DOMAIN data.ingredients : data.ingredients[i].amount < 1

\* C1: a recipe create request whose payload has an empty tag list, a
\* duplicate tag id, cooking_time < 1, an empty ingredient list, a duplicate
\* ingredient id or an ingredient amount < 1 is answered 400, ends there, and
\* changes no recipe row, recipe-tag row or join row.
C1_InvalidCreateRejected ==
    [][(tx.pc = "received" /\ tx.op = "recipe_create" /\ BreaksRule(tx.data))
        => /\ resp'.status = 400
           /\ tx'.pc = "idle"
           /\ UNCHANGED RecipeTables]_vars

\* a create request was rejected while a recipe is stored
C1_Witness ==
    /\ resp.op = "recipe_create"
    /\ resp.status = 400
    /\ tx.pc = "idle"

\* the rows of recipe r that a payload asks for
PayloadJoinRows(r, ingredients_data) ==
    SetToBag({[recipe |-> r, ingredient |-> ingredients_data[i].id,
               amount |-> ingredients_data[i].amount] :
              i \in DOMAIN ingredients_data})

\* the recipe tables after the whole write of the transaction t
WrittenView(t) ==
    [recipes |->
        [r \in DOMAIN t.before.recipes \cup {t.recipe} |->
            IF r = t.recipe
            THEN [author |-> IF t.op = "recipe_create" THEN t.author
                             ELSE t.before.recipes[r].author,
                  cooking_time |-> t.data.cooking_time]
            ELSE t.before.recipes[r]],
     recipe_tags |->
        {x \in t.before.recipe_tags : x[1] # t.recipe}
        \cup {<<t.recipe, tag>> : tag \in Range(t.data.tags)},
     ingredient_recipe |->
        Keep(t.before.ingredient_recipe,
             {row \in BagToSet(t.before.ingredient_recipe) :
                 row.recipe # t.recipe})
        (+) PayloadJoinRows(t.recipe, t.data.ingredients)]

\* C2: recipe create and update are all-or-nothing. While the transaction
\* runs the committed tables are the tables before the request; when it ends
\* they are either the tables before the request (failure) or the tables with
\* the recipe row, its tags and its join rows all written (success).
C2_AllOrNothing ==
    [][InTransaction
        => /\ Committed = tx.before
           /\ tx'.pc = "idle"
                => IF resp'.status \in {200, 201}
                   THEN Committed' = WrittenView(tx)
                   ELSE resp'.status = 500 /\ Committed' = tx.before]_vars

\* an update has cleared the tags and the join rows inside its transaction
C2_Witness ==
    /\ tx.pc = "bulk_create"
    /\ tx.op = "recipe_update"
    /\ tx.view # Committed
    /\ BagToSet(JoinRowsOf(tx.view, tx.recipe)) = {}
    /\ BagToSet(JoinRowsOf(Committed, tx.recipe)) # {}

\* C3: after a successful update of recipe r with payload P the tags of r
\* are the tags of P and the join rows of r are the pairs of P, one row each.
C3_UpdateReplaces ==
    [][(tx.pc = "bulk_create" /\ tx.op = "recipe_update"
        /\ resp'.status = 200)
        => /\ TagsOf(Committed', tx.recipe) = Range(tx.data.tags)
           /\ JoinRowsOf(Committed', tx.recipe)
                = PayloadJoinRows(tx.recipe, tx.data.ingredients)
           /\ \A i \in DOMAIN tx.data.ingredients :
                Cardinality({row \in BagToSet(ingredient_recipe') :
                    /\ row.recipe = tx.recipe
                    /\ row.ingredient = tx.data.ingredients[i].id}) = 1]_vars

\* an update is about to insert its rows while the recipe has a committed
\* tag and a committed join row that the payload does not name
C3_Witness ==
    /\ tx.pc = "bulk_create"
    /\ tx.op = "recipe_update"
    /\ TagsOf(Committed, tx.recipe) \ Range(tx.data.tags) # {}
    /\ \E row \in BagToSet(JoinRowsOf(Committed, tx.recipe)) :
         \A i \in DOMAIN tx.data.ingredients :
            tx.data.ingredients[i].id # row.ingredient

\* ================================================================ toggles
\* favorite, shopping cart and subscription requests, handled by the
\* workers of Procs: reqs[p] is the request worker p is handling
RecipeAndTx == <<recipes, recipe_tags, ingredient_recipe, tx>>

Catalogue == <<users, tags, ingredients, Reference>>

\* the table behind an endpoint of RecipeViewSet
Model(op) == IF op = "favorite" THEN favorite ELSE shopping_cart

SetModel(op, table) ==
    IF op = "favorite"
    THEN favorite' = table /\ UNCHANGED shopping_cart
    ELSE shopping_cart' = table /\ UNCHANGED favorite

\* the request of worker p ends with a response
Respond(p, status, detail) ==
    /\ resp' = Response(reqs[p].op, reqs[p].method, status, detail,
                        reqs[p].target, reqs[p].user)
    /\ reqs' = [reqs EXCEPT ![p] = IdleReq]

\* POST or DELETE /recipes/{pk}/favorite/, /recipes/{pk}/shopping_cart/ or
\* /users/{id}/subscribe/ arrives from an authenticated user
ToggleRequest(p, op, method, pk, user) ==
    /\ reqs[p].pc = "idle"
    /\ user \in users
    /\ reqs' = [reqs EXCEPT ![p] =
                  [pc |-> "received", op |-> op, method |-> method,
                   target |-> pk, user |-> user]]
    /\ resp' = NoResponse
    /\ UNCHANGED <<Catalogue, RecipeAndTx, favorite, shopping_cart,
                   subscribe>>

\* the messages of the ValidationErrors of the toggles (transliterated)
ALREADY_IN_SET == "Retsept uzhe v korzine/izbrannom."

NOT_IN_SET == "Takogo retsepta net v korzine/izbrannom."

ALREADY_SUBSCRIBED == "Vy uzhe podpisany."

SELF_SUBSCRIPTION == "Nel'zya podpisat'sya na sebya."

NO_SUBSCRIPTION == "Nesushchestvuyushchaya podpiska."

\* RecipeMinifiedSerializer.validate without the existence checks
minified_validate_unchecked(table, method, recipe, user) == "ok"

\* RecipeMinifiedSerializer.validate: POST fails when a row of the pair
\* exists; otherwise model.objects.get must find the row
minified_validate(table, method, recipe, user) ==
    LET n == Count(table, [recipe |-> recipe, user |-> user])
    IN  IF method = "POST"
        THEN IF n >= 1 THEN ALREADY_IN_SET ELSE "ok"
        ELSE IF n = 0 THEN NOT_IN_SET
             ELSE IF n > 1 THEN "MultipleObjectsReturned"
             ELSE "ok"

\* serialize_obj: get_object_or_404(Recipe, pk), then is_valid
serialize_obj(p) ==
    /\ reqs[p].pc = "received"
    /\ reqs[p].op \in {"favorite", "shopping_cart"}
    /\ LET q == reqs[p]
           v == minified_validate(Model(q.op), q.method, q.target, q.user)
       IN  IF q.target \notin DOMAIN recipes
           THEN Respond(p, 404, {"not_found"})
           ELSE IF v = "MultipleObjectsReturned"
           THEN Respond(p, 500, {v})
           ELSE IF v # "ok"
           THEN Respond(p, 400, {v})
           ELSE /\ reqs' = [reqs EXCEPT ![p].pc = "write"]
                /\ UNCHANGED resp
    /\ UNCHANGED <<Catalogue, RecipeAndTx, favorite, shopping_cart,
                   subscribe>>

\* UniqueConstraint(fields=['recipe', 'user']) of Favorite and of
\* ShoppingCart, UniqueConstraint(fields=['author', 'follower']) of
\* Subscribe: may row be inserted?
unique_favorite(table, row) == Count(table, row) = 0

unique_shoping_cart(table, row) == Count(table, row) = 0

unique_subscribe(table, row) == Count(table, row) = 0

\* add_obj: model.objects.create(recipe=recipe, user=user); the foreign keys
\* and the uniqueness constraint are checked by the database, and the
\* IntegrityError of a refused insert is not caught
add_obj(p) ==
    /\ reqs[p].pc = "write"
    /\ reqs[p].op \in {"favorite", "shopping_cart"}
    /\ reqs[p].method = "POST"
    /\ LET q == reqs[p]
           row == [recipe |-> q.target, user |-> q.user]
           allowed ==
               /\ q.target \in DOMAIN recipes
               /\ q.user \in users
               /\ IF q.op = "favorite"
                  THEN unique_favorite(favorite, row)
                  ELSE unique_shoping_cart(shopping_cart, row)
       IN  IF allowed
           THEN /\ SetModel(q.op, Insert(Model(q.op), row))
                /\ Respond(p, 201, {})
           ELSE /\ UNCHANGED <<favorite, shopping_cart>>
                /\ Respond(p, 500, {"IntegrityError"})
    /\ UNCHANGED <<Catalogue, RecipeAndTx, subscribe>>

\* del_obj deleting the rows of the recipe of every user
del_obj_of_every_user(p) ==
    /\ reqs[p].pc = "write"
    /\ reqs[p].op \in {"favorite", "shopping_cart"}
    /\ reqs[p].method = "DELETE"
    /\ LET q == reqs[p]
       IN  /\ SetModel(q.op, Keep(Model(q.op),
                                  {x \in BagToSet(Model(q.op)) :
                                      x.recipe # q.target}))
           /\ Respond(p, 204, {"deleted"})
    /\ UNCHANGED <<Catalogue, RecipeAndTx, subscribe>>

\* del_obj: obj = model.objects.get(recipe=recipe, user=user); obj.delete();
\* the DoesNotExist of a failed lookup is not caught
del_obj(p) ==
    /\ reqs[p].pc = "write"
    /\ reqs[p].op \in {"favorite", "shopping_cart"}
    /\ reqs[p].method = "DELETE"
    /\ LET q == reqs[p]
           row == [recipe |-> q.target, user |-> q.user]
           n == Count(Model(q.op), row)
       IN  IF n = 1
           THEN /\ SetModel(q.op, Model(q.op) (-) SetToBag({row}))
                /\ Respond(p, 204, {"deleted"})
           ELSE /\ UNCHANGED <<favorite, shopping_cart>>
                /\ Respond(p, 500, {IF n = 0 THEN "DoesNotExist"
                                    ELSE "MultipleObjectsReturned"})
    /\ UNCHANGED <<Catalogue, RecipeAndTx, subscribe>>

\* SubscribeSerializer.validate without the check of author == follower
subscribe_validate_no_self_check(method, author, follower) ==
    LET n == Count(subscribe, [author |-> author, follower |-> follower])
    IN  IF method = "POST"
        THEN IF n >= 1 THEN ALREADY_SUBSCRIBED ELSE "ok"
        ELSE IF n = 0 THEN NO_SUBSCRIPTION
             ELSE IF n > 1 THEN "MultipleObjectsReturned"
             ELSE "ok"

\* SubscribeSerializer.validate: POST fails when the subscription exists and
\* when the author is the follower; otherwise Subscribe.objects.get must find
\* the row
subscribe_validate(method, author, follower) ==
    LET n == Count(subscribe, [author |-> author, follower |-> follower])
    IN  IF method = "POST"
        THEN IF n >= 1 THEN ALREADY_SUBSCRIBED
             ELSE IF author = follower THEN SELF_SUBSCRIPTION
             ELSE "ok"
        ELSE IF n = 0 THEN NO_SUBSCRIPTION
             ELSE IF n > 1 THEN "MultipleObjectsReturned"
             ELSE "ok"

\* CustomUserViewSet.subscribe up to is_valid:
\* get_object_or_404(CustomUser, pk), then SubscribeSerializer.validate
subscribe_is_valid(p) ==
    /\ reqs[p].pc = "received"
    /\ reqs[p].op = "subscribe"
    /\ LET q == reqs[p]
           v == subscribe_validate(q.method, q.target, q.user)
       IN  IF q.target \notin users
           THEN Respond(p, 404, {"not_found"})
           ELSE IF v = "MultipleObjectsReturned"
           THEN Respond(p, 500, {v})
           ELSE IF v # "ok"
           THEN Respond(p, 400, {v})
           ELSE /\ reqs' = [reqs EXCEPT ![p].pc = "write"]
                /\ UNCHANGED resp
    /\ UNCHANGED <<Catalogue, RecipeAndTx, favorite, shopping_cart,
                   subscribe>>

\* CustomUserViewSet.subscribe, POST: Subscribe.objects.create(author,
\* follower)
subscribe_create(p) ==
    /\ reqs[p].pc = "write"
    /\ reqs[p].op = "subscribe"
    /\ reqs[p].method = "POST"
    /\ LET q == reqs[p]
           row == [author |-> q.target, follower |-> q.user]
       IN  IF /\ q.target \in users
              /\ q.user \in users
              /\ unique_subscribe(subscribe, row)
           THEN /\ subscribe' = Insert(subscribe, row)
                /\ Respond(p, 201, {})
           ELSE /\ UNCHANGED subscribe
                /\ Respond(p, 500, {"IntegrityError"})
    /\ UNCHANGED <<Catalogue, RecipeAndTx, favorite, shopping_cart>>

\* the DELETE branch deleting every subscription of the follower
subscribe_delete_of_every_author(p) ==
    /\ reqs[p].pc = "write"
    /\ reqs[p].op = "subscribe"
    /\ reqs[p].method = "DELETE"
    /\ subscribe' = Keep(subscribe, {x \in BagToSet(subscribe) :
                                        x.follower # reqs[p].user})
    /\ Respond(p, 204, {"unsubscribed"})
    /\ UNCHANGED <<Catalogue, RecipeAndTx, favorite, shopping_cart>>

\* CustomUserViewSet.subscribe, DELETE: Subscribe.objects.get(author,
\* follower), then subscription.delete()
subscribe_delete(p) ==
    /\ reqs[p].pc = "write"
    /\ reqs[p].op = "subscribe"
    /\ reqs[p].method = "DELETE"
    /\ LET q == reqs[p]
           row == [author |-> q.target, follower |-> q.user]
           n == Count(subscribe, row)
       IN  IF n = 1
           THEN /\ subscribe' = subscribe (-) SetToBag({row})
                /\ Respond(p, 204, {"unsubscribed"})
           ELSE /\ UNCHANGED subscribe
                /\ Respond(p, 500, {IF n = 0 THEN "DoesNotExist"
                                    ELSE "MultipleObjectsReturned"})
    /\ UNCHANGED <<Catalogue, RecipeAndTx, favorite, shopping_cart>>

\* ============================================================ shopping list
\* Ingredient.name (unique) and Ingredient.measurement_unit of the stored
\* ingredients
\* the sum of value[x] over the x of S
RECURSIVE SumOver(_, _)
SumOver(S, value) ==
    IF S = {} THEN 0
    ELSE LET x == CHOOSE y \in S : TRUE
         IN  value[x] + SumOver(S \ {x}, value)

\* the sequences that list every element of S once
Orders(S) ==
    {f \in [1..Cardinality(S) -> S] :
        \A i, j \in DOMAIN f : i # j => f[i] # f[j]}

\* the filter without the user: the cart rows of every user are joined
cart_join_of_every_user(cart, user) ==
    {pair \in BagToSet(ingredient_recipe) \X BagToSet(cart) :
        pair[2].recipe = pair[1].recipe}

\* IngredientRecipe.objects.filter(recipe__shopping_cart__user=user): the
\* join of the IngredientRecipe rows with the cart rows of their recipe, kept
\* where the cart row is of user; each pair of rows is one row of the result
cart_join(cart, user) ==
    {pair \in BagToSet(ingredient_recipe) \X BagToSet(cart) :
        /\ pair[2].recipe = pair[1].recipe
        /\ pair[2].user = user}

\* .values('ingredient__name', 'ingredient__measurement_unit'): the groups
cart_groups(cart, user) ==
    {<<ingredient_name(pair[1].ingredient),
       measurement_unit(pair[1].ingredient)>> : pair \in cart_join(cart, user)}

\* .annotate(total_amount=Sum('amount')) for one group
total_amount(cart, user, group) ==
    SumOver({pair \in cart_join(cart, user) :
                /\ ingredient_name(pair[1].ingredient) = group[1]
                /\ measurement_unit(pair[1].ingredient) = group[2]},
            [pair \in cart_join(cart, user) |->
                pair[1].amount * ingredient_recipe[pair[1]] * cart[pair[2]]])

\* generate_shopping_cart: one line per group, in the order the database
\* returns the groups, numbered index + 1 from index 0
generate_shopping_cart(cart, user, order) ==
    [k \in 1..Len(order) |->
        LET index == k - 1
        IN  [number |-> index + 1, name |-> order[k][1],
             total |-> total_amount(cart, user, order[k]),
             unit |-> order[k][2]]]

AllIdle == tx.pc = "idle" /\ \A p \in Procs : reqs[p].pc = "idle"

\* GET /recipes/download_shopping_cart/ from an authenticated user
download_shopping_cart(user, order) ==
    /\ user \in users
    /\ order \in Orders(cart_groups(shopping_cart, user))
    /\ resp' = [Response("download_shopping_cart", "GET", 200, {}, NoRecipe,
                         user)
                  EXCEPT !.body = generate_shopping_cart(shopping_cart, user,
                                                         order)]
    /\ UNCHANGED <<Catalogue, RecipeAndTx, favorite, shopping_cart,
                   subscribe, reqs>>

\* ================================================================= deletes
\* on_delete=models.CASCADE: the rows that go with the recipes of gone
cascade_recipe_tags(gone) == {x \in recipe_tags : x[1] \notin gone}

cascade_ingredient_recipe(gone) ==
    Keep(ingredient_recipe,
         {row \in BagToSet(ingredient_recipe) : row.recipe \notin gone})

\* Favorite.user without on_delete=CASCADE taking the rows along
cascade_favorite_of_recipes_only(gone, gone_users) ==
    Keep(favorite, {row \in BagToSet(favorite) : row.recipe \notin gone})

cascade_favorite(gone, gone_users) ==
    Keep(favorite,
         {row \in BagToSet(favorite) :
             row.recipe \notin gone /\ row.user \notin gone_users})

cascade_shopping_cart(gone, gone_users) ==
    Keep(shopping_cart,
         {row \in BagToSet(shopping_cart) :
             row.recipe \notin gone /\ row.user \notin gone_users})

cascade_subscribe(gone_users) ==
    Keep(subscribe,
         {row \in BagToSet(subscribe) :
             row.author \notin gone_users /\ row.follower \notin gone_users})

\* the recipes and the users of gone and gone_users are deleted with
\* everything that references them
Cascade(gone, gone_users) ==
    /\ users' = users \ gone_users
    /\ recipes' = [r \in DOMAIN recipes \ gone |-> recipes[r]]
    /\ recipe_tags' = cascade_recipe_tags(gone)
    /\ ingredient_recipe' = cascade_ingredient_recipe(gone)
    /\ favorite' = cascade_favorite(gone, gone_users)
    /\ shopping_cart' = cascade_shopping_cart(gone, gone_users)
    /\ subscribe' = cascade_subscribe(gone_users)

\* DELETE /recipes/{pk}/ (by the author or an administrator)
recipe_destroy(pk) ==
    /\ IF pk \notin DOMAIN recipes
       THEN /\ resp' = Response("recipe_destroy", "DELETE", 404,
                                {"not_found"}, pk, NoUser)
            /\ UNCHANGED <<users, recipes, recipe_tags, ingredient_recipe,
                           favorite, shopping_cart, subscribe>>
       ELSE /\ resp' = Response("recipe_destroy", "DELETE", 204, {}, pk,
                                NoUser)
            /\ Cascade({pk}, {})
    /\ UNCHANGED <<tags, ingredients, tx, reqs, Reference>>

\* a user row is deleted (DELETE /users/{id}/ or the admin site): the
\* recipes the user authored go too
user_destroy(id) ==
    /\ id \in users
    /\ resp' = Response("user_destroy", "DELETE", 204, {}, id, NoUser)
    /\ Cascade({r \in DOMAIN recipes : recipes[r].author = id}, {id})
    /\ UNCHANGED <<tags, ingredients, tx, reqs, Reference>>

\* ============================================ the sequential specification
\* the database after the loaders and some recipe writes: users 1 and 2 are
\* registered, every tag and ingredient is stored; recipe r is authored by user 1 (odd r) or 2
\* (even r), has tag 1, and needs 2 salt and 1 pepper (odd r) or 3 salt;
\* user 2 follows user 1
SeedRecipes ==
    [r \in RecipeIds |->
        [author |-> IF r % 2 = 1 THEN 1 ELSE 2, cooking_time |-> 1]]

SeedJoinRows ==
    SetToBag({[recipe |-> r, ingredient |-> 1,
               amount |-> IF r % 2 = 1 THEN 2 ELSE 3] : r \in RecipeIds}
             \cup {[recipe |-> r, ingredient |-> 2, amount |-> 1] :
                   r \in {x \in RecipeIds : x % 2 = 1}})

Init ==
    /\ users = {1, 2}
    /\ tags = TagIds
    /\ ingredients = IngredientIds
    /\ recipes = SeedRecipes
    /\ recipe_tags = {<<r, 1>> : r \in RecipeIds}
    /\ ingredient_recipe = SeedJoinRows
    /\ favorite = EmptyBag
    /\ shopping_cart = EmptyBag
    /\ subscribe = SetToBag({[author |-> 1, follower |-> 2]})
    /\ tx = IdleTx
    /\ reqs = [p \in Procs |-> IdleReq]
    /\ resp = NoResponse
    /\ ReferenceInit

\* a step of a favorite or shopping-cart request being handled
HandleToggle(p) ==
    \/ serialize_obj(p)
    \/ add_obj(p)
    \/ del_obj(p)

\* a step of a subscription request being handled
HandleSubscribe(p) ==
    \/ subscribe_is_valid(p)
    \/ subscribe_create(p)
    \/ subscribe_delete(p)

\* a favorite or shopping-cart request arrives
ArriveToggle(p) ==
    \E op \in {"favorite", "shopping_cart"}, method \in {"POST", "DELETE"},
       pk \in RecipeIds, user \in UserIds :
           ToggleRequest(p, op, method, pk, user)

\* a subscription request arrives
ArriveSubscribe(p) ==
    \E method \in {"POST", "DELETE"}, id \in UserIds, user \in UserIds :
           ToggleRequest(p, "subscribe", method, id, user)

\* requests are handled one after the other, by one worker
Worker == CHOOSE p \in Procs : TRUE

\* favorites, shopping carts, the shopping list and the deletes
Next ==
    \/ AllIdle /\ ArriveToggle(Worker)
    \/ HandleToggle(Worker)
    \/ \E user \in UserIds :
          \E order \in Orders(cart_groups(shopping_cart, user)) :
              AllIdle /\ download_shopping_cart(user, order)
    \/ \E pk \in RecipeIds : AllIdle /\ recipe_destroy(pk)
    \/ \E id \in UserIds : AllIdle /\ user_destroy(id)

Spec == Init /\ [][Next]_vars

\* subscriptions, from a database of three users without subscriptions
InitSub ==
    /\ users = UserIds
    /\ tags = TagIds
    /\ ingredients = IngredientIds
    /\ recipes = SeedRecipes
    /\ recipe_tags = {<<r, 1>> : r \in RecipeIds}
    /\ ingredient_recipe = SeedJoinRows
    /\ favorite = EmptyBag
    /\ shopping_cart = EmptyBag
    /\ subscribe = EmptyBag
    /\ tx = IdleTx
    /\ reqs = [p \in Procs |-> IdleReq]
    /\ resp = NoResponse
    /\ ReferenceInit

NextSub ==
    \/ AllIdle /\ ArriveSubscribe(Worker)
    \/ HandleSubscribe(Worker)
    \/ \E id \in UserIds : AllIdle /\ user_destroy(id)

SpecSub == InitSub /\ [][NextSub]_vars

\* ============================================ the concurrent specification
\* the workers handle their requests at the same time: the statements of
\* different requests interleave. The database holds one recipe.
InitConc ==
    /\ users = {1, 2}
    /\ tags = TagIds
    /\ ingredients = IngredientIds
    /\ recipes = [r \in {1} |-> SeedRecipes[r]]
    /\ recipe_tags = {<<1, 1>>}
    /\ ingredient_recipe =
         Keep(SeedJoinRows, {row \in BagToSet(SeedJoinRows) : row.recipe = 1})
    /\ favorite = EmptyBag
    /\ shopping_cart = EmptyBag
    /\ subscribe = EmptyBag
    /\ tx = IdleTx
    /\ reqs = [p \in Procs |-> IdleReq]
    /\ resp = NoResponse
    /\ ReferenceInit

NextConc ==
    \/ \E p \in Procs : ArriveToggle(p)
    \/ \E p \in Procs : ArriveSubscribe(p)
    \/ \E p \in Procs : HandleToggle(p)
    \/ \E p \in Procs : HandleSubscribe(p)

SpecConc == InitConc /\ [][NextConc]_vars

\* ------------------------------------------------------ claims on toggles
ToggleOps == {"favorite", "shopping_cart"}

ModelAfter(op) == IF op = "favorite" THEN favorite' ELSE shopping_cart'

PairRows == [recipe : RecipeIds, user : UserIds]

\* C4: for favorites and for the shopping cart, an add request for a pair
\* without a row is answered 201 and stores exactly one row; an add request
\* for a pair with a row is answered 400 and stores nothing; no pair ever has
\* more than one row.
C4_AddOncePerPair ==
    [][/\ \A p \in Procs :
            LET q == reqs[p]
            IN  (/\ q.pc \in {"received", "write"}
                 /\ q.op \in ToggleOps
                 /\ q.method = "POST"
                 /\ q.target \in DOMAIN recipes
                 /\ reqs'[p] # q)
                => LET row == [recipe |-> q.target, user |-> q.user]
                       table == Model(q.op)
                   IN  IF Count(table, row) = 0
                       THEN IF q.pc = "received"
                            THEN /\ reqs'[p].pc = "write"
                                 /\ UNCHANGED <<favorite, shopping_cart>>
                            ELSE /\ reqs'[p].pc = "idle"
                                 /\ resp'.status = 201
                                 /\ ModelAfter(q.op) = Insert(table, row)
                                 /\ Count(ModelAfter(q.op), row) = 1
                                 /\ \A other \in ToggleOps \ {q.op} :
                                        ModelAfter(other) = Model(other)
                       ELSE /\ reqs'[p].pc = "idle"
                            /\ resp'.status = 400
                            /\ UNCHANGED <<favorite, shopping_cart>>
       /\ \A op \in ToggleOps, row \in PairRows :
            Count(ModelAfter(op), row) <= 1]_vars

\* a second add of a favorite was answered 400 and the pair has one row
C4_Witness ==
    /\ resp.op = "favorite"
    /\ resp.method = "POST"
    /\ resp.status = 400
    /\ Count(favorite, [recipe |-> resp.target, user |-> resp.user]) = 1

\* C5: for favorites and for the shopping cart, a remove request for a pair
\* without a row is answered 400 and changes nothing; a remove request for a
\* pair with a row is answered 204 and deletes that row and no other.
C5_RemoveExactlyTheRow ==
    [][\A p \in Procs :
            LET q == reqs[p]
            IN  (/\ q.pc \in {"received", "write"}
                 /\ q.op \in ToggleOps
                 /\ q.method = "DELETE"
                 /\ q.target \in DOMAIN recipes
                 /\ reqs'[p] # q)
                => LET row == [recipe |-> q.target, user |-> q.user]
                       table == Model(q.op)
                   IN  IF Count(table, row) = 0
                       THEN /\ reqs'[p].pc = "idle"
                            /\ resp'.status = 400
                            /\ UNCHANGED <<favorite, shopping_cart>>
                       ELSE IF q.pc = "received"
                            THEN /\ reqs'[p].pc = "write"
                                 /\ UNCHANGED <<favorite, shopping_cart>>
                            ELSE /\ reqs'[p].pc = "idle"
                                 /\ resp'.status = 204
                                 /\ Count(ModelAfter(q.op), row) = 0
                                 /\ \A x \in PairRows \ {row} :
                                        Count(ModelAfter(q.op), x)
                                            = Count(table, x)
                                 /\ \A other \in ToggleOps \ {q.op} :
                                        ModelAfter(other) = Model(other)]_vars

\* a cart row was removed while the cart table keeps other rows
C5_Witness ==
    /\ resp.op = "shopping_cart"
    /\ resp.method = "DELETE"
    /\ resp.status = 204
    /\ \E x \in BagToSet(shopping_cart) : x.recipe = resp.target

\* C6: when two add requests for the same pair both pass the existence check
\* before either writes, one row is stored and the loser is answered 400:
\* every add request ends with 201, 400 or 404, and no pair has two rows.
C6_LostRaceAnswered400 ==
    /\ (resp.method = "POST" /\ resp.op \in ToggleOps \cup {"subscribe"})
          => resp.status \in {201, 400, 404}
    /\ \A op \in ToggleOps, row \in PairRows : Count(Model(op), row) <= 1
    /\ \A row \in [author : UserIds, follower : UserIds] :
          Count(subscribe, row) <= 1

\* C7: a subscribe request of a user to themself is answered 400 in every
\* state and stores nothing; no Subscribe row has author = follower.
C7_NoSelfSubscription ==
    [][/\ \A p \in Procs :
            LET q == reqs[p]
            IN  (/\ q.pc = "received"
                 /\ q.op = "subscribe"
                 /\ q.method = "POST"
                 /\ q.target = q.user
                 /\ reqs'[p] # q)
                => /\ reqs'[p].pc = "idle"
                   /\ resp'.status = 400
                   /\ subscribe' = subscribe
       /\ \A row \in BagToSet(subscribe') : row.author # row.follower]_vars

\* a self-subscription was rejected while subscriptions exist
C7_Witness ==
    /\ resp.op = "subscribe"
    /\ resp.method = "POST"
    /\ resp.status = 400
    /\ resp.target = resp.user
    /\ \E row \in BagToSet(subscribe) : row.follower = resp.user

\* the subscribe request of worker p is rejected with message
SubscribeRejected(p, message) ==
    /\ reqs'[p].pc = "idle"
    /\ resp'.status = 400
    /\ resp'.detail = {message}
    /\ subscribe' = subscribe

\* C8: subscribing to an author already followed, unsubscribing from an
\* author not followed and self-subscribing are each rejected (400) with a
\* message of their own and leave the Subscribe rows unchanged; a valid
\* subscribe adds exactly the (author, follower) row and a valid unsubscribe
\* removes exactly it.
C8_SubscribeOutcomes ==
    [][/\ \A p \in Procs :
            LET q == reqs[p]
            IN  (/\ q.pc \in {"received", "write"}
                 /\ q.op = "subscribe"
                 /\ q.target \in users
                 /\ reqs'[p] # q)
                => LET row == [author |-> q.target, follower |-> q.user]
                       n == Count(subscribe, row)
                   IN  IF q.method = "POST" /\ n >= 1
                       THEN SubscribeRejected(p, ALREADY_SUBSCRIBED)
                       ELSE IF q.method = "POST" /\ q.target = q.user
                       THEN SubscribeRejected(p, SELF_SUBSCRIPTION)
                       ELSE IF q.method = "DELETE" /\ n = 0
                       THEN SubscribeRejected(p, NO_SUBSCRIPTION)
                       ELSE IF q.pc = "received"
                       THEN reqs'[p].pc = "write" /\ subscribe' = subscribe
                       ELSE IF q.method = "POST"
                       THEN /\ resp'.status = 201
                            /\ subscribe' = Insert(subscribe, row)
                       ELSE /\ resp'.status = 204
                            /\ Count(subscribe', row) = 0
                            /\ \A x \in BagToSet(subscribe) \ {row} :
                                   Count(subscribe', x) = Count(subscribe, x)
       /\ ALREADY_SUBSCRIBED # SELF_SUBSCRIPTION
       /\ ALREADY_SUBSCRIBED # NO_SUBSCRIPTION
       /\ SELF_SUBSCRIPTION # NO_SUBSCRIPTION]_vars

\* a valid unsubscribe removed its row while the follower keeps another
\* subscription
C8_Witness ==
    /\ resp.op = "subscribe"
    /\ resp.method = "DELETE"
    /\ resp.status = 204
    /\ \E row \in BagToSet(subscribe) : row.follower = resp.user

\* ------------------------------------------------ claims on the shopping list
\* the recipes in the cart of user, each once
CartRecipes(user) ==
    {r \in DOMAIN recipes :
        Count(shopping_cart, [recipe |-> r, user |-> user]) >= 1}

NeededRows(user) ==
    {x \in BagToSet(ingredient_recipe) : x.recipe \in CartRecipes(user)}

GroupOf(x) ==
    <<ingredient_name(x.ingredient), measurement_unit(x.ingredient)>>

NeededGroups(user) == {GroupOf(x) : x \in NeededRows(user)}

NeededTotal(user, group) ==
    SumOver({x \in NeededRows(user) : GroupOf(x) = group},
            [x \in NeededRows(user) |-> x.amount * ingredient_recipe[x]])

ListCorrect(user, body) ==
    /\ Len(body) = Cardinality(NeededGroups(user))
    /\ {<<body[k].name, body[k].unit>> : k \in DOMAIN body}
          = NeededGroups(user)
    /\ \A k \in DOMAIN body :
          /\ body[k].number = k
          /\ body[k].total
                = NeededTotal(user, <<body[k].name, body[k].unit>>)

\* C9: the shopping list of user u has one line per (ingredient name, unit)
\* of the join rows of the recipes in u's cart, numbered from 1, each with
\* the sum of the amounts over the recipes in u's cart, each recipe counted
\* once; generating it changes no row.
C9_ShoppingList ==
    [][resp'.op = "download_shopping_cart"
        => /\ ListCorrect(resp'.user, resp'.body)
           /\ UNCHANGED <<users, tags, ingredients, recipes, recipe_tags,
                          ingredient_recipe, favorite, shopping_cart,
                          subscribe>>]_vars

\* the list of a user with two recipes in the cart (5 salt, 1 pepper), while
\* the other user has a recipe in the cart and the user has a favorite
C9_Witness ==
    /\ resp.op = "download_shopping_cart"
    /\ Len(resp.body) = 2
    /\ \E k \in DOMAIN resp.body :
          resp.body[k].name = "salt" /\ resp.body[k].total = 5
    /\ \E k \in DOMAIN resp.body :
          resp.body[k].name = "pepper" /\ resp.body[k].total = 1
    /\ \E x \in BagToSet(shopping_cart) : x.user # resp.user
    /\ \E x \in BagToSet(favorite) : x.user = resp.user

\* ------------------------------------------------------- claims on deletes
\* C10: deleting a recipe or a user removes the rows that reference it (and
\* the recipes the user authored): every Favorite, ShoppingCart, Subscribe,
\* IngredientRecipe and recipe-tag row references existing recipes, users,
\* ingredients and tags, and every recipe an existing author.
C10_NoDanglingReference ==
    /\ \A x \in BagToSet(favorite) :
          x.recipe \in DOMAIN recipes /\ x.user \in users
    /\ \A x \in BagToSet(shopping_cart) :
          x.recipe \in DOMAIN recipes /\ x.user \in users
    /\ \A x \in BagToSet(subscribe) :
          x.author \in users /\ x.follower \in users
    /\ \A x \in BagToSet(ingredient_recipe) :
          x.recipe \in DOMAIN recipes /\ x.ingredient \in ingredients
    /\ \A x \in recipe_tags : x[1] \in DOMAIN recipes /\ x[2] \in tags
    /\ \A r \in DOMAIN recipes : recipes[r].author \in users

\* a user was deleted, with the recipes they authored, while a favorite of
\* the other user remains
C10_Witness ==
    /\ resp.op = "user_destroy"
    /\ resp.status = 204
    /\ DOMAIN recipes # RecipeIds
    /\ favorite # EmptyBag

\* ======================================================== recipe retrieval
\* request.user.is_authenticated: AnonymousUser is the requester NoUser
is_authenticated(user) == user # NoUser

\* get_is_favorited without the filter on the requesting user
get_is_favorited_of_any_user(recipe, user) ==
    IF is_authenticated(user)
    THEN \E row \in BagToSet(favorite) : row.recipe = recipe
    ELSE FALSE

\* RecipeSerializer.get_is_favorited:
\* obj.favorites.filter(user=user).exists() if user.is_authenticated
get_is_favorited(recipe, user) ==
    IF is_authenticated(user)
    THEN \E row \in {x \in BagToSet(favorite) : x.recipe = recipe} :
            row.user = user
    ELSE FALSE

\* RecipeSerializer.get_is_in_shopping_cart
get_is_in_shopping_cart(recipe, user) ==
    IF is_authenticated(user)
    THEN \E row \in {x \in BagToSet(shopping_cart) : x.recipe = recipe} :
            row.user = user
    ELSE FALSE

\* GET /recipes/{pk}/ from user (NoUser: without credentials): the recipe
\* serialized for the requester, or 404
recipe_retrieve(pk, user) ==
    /\ user \in users \cup {NoUser}
    /\ IF pk \notin DOMAIN recipes
       THEN resp' = Response("recipe_retrieve", "GET", 404, {"not_found"},
                             pk, user)
       ELSE resp' = [Response("recipe_retrieve", "GET", 200, {}, pk, user)
                       EXCEPT !.body =
                           <<[is_favorited |-> get_is_favorited(pk, user),
                              is_in_shopping_cart |->
                                  get_is_in_shopping_cart(pk, user)]>>]
    /\ UNCHANGED <<Catalogue, RecipeAndTx, favorite, shopping_cart,
                   subscribe, reqs>>

\* recipes are read while favorites and carts are toggled and recipes
\* deleted
NextView ==
    \/ AllIdle /\ ArriveToggle(Worker)
    \/ HandleToggle(Worker)
    \/ \E pk \in RecipeIds, user \in UserIds \cup {NoUser} :
          AllIdle /\ recipe_retrieve(pk, user)
    \/ \E pk \in RecipeIds : AllIdle /\ recipe_destroy(pk)

SpecView == Init /\ [][NextView]_vars

\* C11: serializing recipe r for requester v yields is_favorited = true iff
\* a Favorite row (r, v) is stored at that moment and is_in_shopping_cart =
\* true iff a ShoppingCart row (r, v) is stored; for a requester without
\* credentials both are false. A successful add makes the flag of that
\* requester true and of no other, a successful remove makes it false.
C11_FlagsReflectRows ==
    [][/\ (resp'.op = "recipe_retrieve" /\ resp'.target \in DOMAIN recipes)
          => LET r == resp'.target
                 v == resp'.user
                 flags == resp'.body[1]
             IN  /\ resp'.status = 200
                 /\ Len(resp'.body) = 1
                 /\ flags.is_favorited
                       <=> (v # NoUser
                            /\ Count(favorite,
                                     [recipe |-> r, user |-> v]) >= 1)
                 /\ flags.is_in_shopping_cart
                       <=> (v # NoUser
                            /\ Count(shopping_cart,
                                     [recipe |-> r, user |-> v]) >= 1)
                 /\ v = NoUser => /\ ~flags.is_favorited
                                  /\ ~flags.is_in_shopping_cart
       /\ (resp'.op \in ToggleOps /\ resp'.status \in {201, 204})
          => LET r == resp'.target
                 v == resp'.user
                 Flag(w) == IF resp'.op = "favorite"
                            THEN get_is_favorited(r, w)
                            ELSE get_is_in_shopping_cart(r, w)
                 FlagAfter(w) ==
                     /\ w # NoUser
                     /\ Count(ModelAfter(resp'.op),
                              [recipe |-> r, user |-> w]) >= 1
             IN  /\ FlagAfter(v) <=> resp'.status = 201
                 /\ \A w \in (UserIds \cup {NoUser}) \ {v} :
                        FlagAfter(w) <=> Flag(w)]_vars

\* a recipe read by a user who has it in the favorites and not in the cart,
\* while another user has it in the cart
C11_Witness ==
    /\ resp.op = "recipe_retrieve"
    /\ resp.status = 200
    /\ resp.body[1].is_favorited
    /\ ~resp.body[1].is_in_shopping_cart
    /\ \E row \in BagToSet(shopping_cart) :
          row.recipe = resp.target /\ row.user # resp.user

\* ------------------------------------------- claims on missing references
\* the payload is valid but for an ingredient id without a row
OnlyMissingIngredient(data) ==
    /\ tags_field(data.tags)
    /\ validate_tags(data.tags) = "ok"
    /\ validate_image(data.image) = "ok"
    /\ validate_cooking_time(data.cooking_time) = "ok"
    /\ data.ingredients # <<>>
    /\ \A i, j \in DOMAIN data.ingredients :
          data.ingredients[i].id = data.ingredients[j].id => i = j
    /\ \A i \in DOMAIN data.ingredients :
          data.ingredients[i].amount >= MIN_AMOUNT
    /\ \E i \in DOMAIN data.ingredients :
          data.ingredients[i].id \notin ingredients

AllTables ==
    <<users, tags, ingredients, recipes, recipe_tags, ingredient_recipe,
      favorite, shopping_cart, subscribe>>

\* C12: a request that references an id without a row is answered 404 and
\* changes no row: a favorite or shopping-cart toggle on a missing recipe, a
\* subscribe or unsubscribe on a missing user, and a recipe create or update
\* whose ingredient list names a missing ingredient.
C12_MissingReferenceIs404 ==
    [][/\ \A p \in Procs :
            LET q == reqs[p]
            IN  (/\ q.pc = "received"
                 /\ reqs'[p] # q
                 /\ \/ q.op \in ToggleOps /\ q.target \notin DOMAIN recipes
                    \/ q.op = "subscribe" /\ q.target \notin users)
                => /\ resp'.status = 404
                   /\ reqs'[p].pc = "idle"
                   /\ UNCHANGED AllTables
       /\ (/\ tx.pc = "received"
           /\ tx.op \in {"recipe_create", "recipe_update"}
           /\ OnlyMissingIngredient(tx.data)
           /\ tx' # tx)
          => /\ resp'.status = 404
             /\ tx'.pc = "idle"
             /\ UNCHANGED AllTables]_vars

\* =================================================== management commands
\* the number of command runs followed
MaxRuns == 2

\* the records of api/management/data/ingredients.json and tags.json
IngredientRecords == [name : {"salt", "sugar"}, measurement_unit : {"g", "kg"}]

TagRecords == [name : {"breakfast", "lunch"}, slug : {"breakfast", "lunch"}]

LoadInputs(kind) ==
    SeqsUpTo(IF kind = "ingredients" THEN IngredientRecords ELSE TagRecords,
             2)

\* the primary key of the next row of a table
next_pk(table) ==
    IF DOMAIN table = {} THEN 1
    ELSE 1 + CHOOSE pk \in DOMAIN table : \A other \in DOMAIN table :
                 other <= pk

\* Model.objects.create(**record)
objects_create(table, record) ==
    [pk \in DOMAIN table \cup {next_pk(table)} |->
        IF pk \in DOMAIN table THEN table[pk] ELSE record]

\* python manage.py load_ingredients / load_tags: the file is read
LoadStart(kind, input) ==
    /\ AllIdle
    /\ load.pc = "idle"
    /\ load.runs < MaxRuns
    /\ load' = [pc |-> "loop", kind |-> kind, data |-> input, i |-> 1,
                again |-> (kind = load.kind /\ input = load.data),
                runs |-> load.runs + 1]
    /\ UNCHANGED <<users, tags, ingredients, RecipeAndTx, favorite,
                   shopping_cart, subscribe, reqs, resp, tag_table,
                   ingredient_table>>

\* load_ingredients, one turn of the loop of handle
load_ingredients ==
    /\ load.pc = "loop"
    /\ load.kind = "ingredients"
    /\ load.i <= Len(load.data)
    /\ LET ingredient_data == load.data[load.i]
           name == ingredient_data.name
       IN  IF ~\E pk \in DOMAIN ingredient_table :
                   ingredient_table[pk].name = name
           THEN /\ ingredient_table' = objects_create(ingredient_table,
                                                      ingredient_data)
                /\ ingredients' = DOMAIN ingredient_table'
           ELSE UNCHANGED <<ingredients, ingredient_table>>
    /\ load' = [load EXCEPT !.i = @ + 1]
    /\ UNCHANGED <<users, tags, RecipeAndTx, favorite, shopping_cart,
                   subscribe, reqs, resp, tag_table>>

\* load_tags, one turn of the loop of handle
load_tags ==
    /\ load.pc = "loop"
    /\ load.kind = "tags"
    /\ load.i <= Len(load.data)
    /\ LET tag_data == load.data[load.i]
           slug == tag_data.slug
       IN  IF ~\E pk \in DOMAIN tag_table : tag_table[pk].slug = slug
           THEN /\ tag_table' = objects_create(tag_table, tag_data)
                /\ tags' = DOMAIN tag_table'
           ELSE UNCHANGED <<tags, tag_table>>
    /\ load' = [load EXCEPT !.i = @ + 1]
    /\ UNCHANGED <<users, ingredients, RecipeAndTx, favorite, shopping_cart,
                   subscribe, reqs, resp, ingredient_table>>

\* the loop is over: 'Загрузка выполнена!'
LoadDone ==
    /\ load.pc = "loop"
    /\ load.i > Len(load.data)
    /\ load' = [load EXCEPT !.pc = "idle"]
    /\ UNCHANGED <<users, tags, ingredients, RecipeAndTx, favorite,
                   shopping_cart, subscribe, reqs, resp, tag_table,
                   ingredient_table>>

\* the commands run against a database with one tag and one ingredient, or
\* with none
InitLoad ==
    /\ users = {1}
    /\ tags \in {{}, {1}}
    /\ ingredients \in {{}, {1}}
    /\ recipes = <<>>
    /\ recipe_tags = {}
    /\ ingredient_recipe = EmptyBag
    /\ favorite = EmptyBag
    /\ shopping_cart = EmptyBag
    /\ subscribe = EmptyBag
    /\ tx = IdleTx
    /\ reqs = [p \in Procs |-> IdleReq]
    /\ resp = NoResponse
    /\ ReferenceInit

NextLoad ==
    \/ \E kind \in {"ingredients", "tags"} :
          \E input \in LoadInputs(kind) : LoadStart(kind, input)
    \/ load_ingredients
    \/ load_tags
    \/ LoadDone

SpecLoad == InitLoad /\ [][NextLoad]_vars

\* the table a command fills, before and after a step
LoadTable == IF load.kind = "ingredients" THEN ingredient_table ELSE tag_table

LoadTableAfter ==
    IF load.kind = "ingredients" THEN ingredient_table' ELSE tag_table'

\* C13: each loader, taking its records in order, inserts a record iff no
\* stored row has the same name when the record is processed and skips it
\* otherwise; it never modifies or deletes a stored row; after a completed
\* run every input name is stored, and a second run on the same input
\* inserts nothing.
C13_ImportKeyedOnName ==
    [][/\ (load.pc = "loop" /\ load.i <= Len(load.data) /\ load' # load)
          => LET record == load.data[load.i]
                 present == \E pk \in DOMAIN LoadTable :
                                LoadTable[pk].name = record.name
             IN  /\ \A pk \in DOMAIN LoadTable :
                        /\ pk \in DOMAIN LoadTableAfter
                        /\ LoadTableAfter[pk] = LoadTable[pk]
                 /\ IF present
                    THEN LoadTableAfter = LoadTable
                    ELSE /\ Cardinality(DOMAIN LoadTableAfter)
                               = Cardinality(DOMAIN LoadTable) + 1
                         /\ \E pk \in DOMAIN LoadTableAfter \ DOMAIN LoadTable :
                                LoadTableAfter[pk] = record
                 /\ load.again => LoadTableAfter = LoadTable
       /\ (load.pc = "loop" /\ load'.pc = "idle")
          => \A i \in DOMAIN load.data :
                 \E pk \in DOMAIN LoadTable :
                     LoadTable[pk].name = load.data[i].name]_vars

\* ========================================= partial updates and the recipe API
\* the fields a PATCH payload leaves out
PatchOmits ==
    {{"tags"}, {"ingredients"}, {"tags", "ingredients"},
     {"image", "cooking_time"}}

\* the payloads of PATCH /recipes/{pk}/: payloads without some fields
PatchPayloads ==
    UNION {{[f \in DOMAIN data \ omit |-> data[f]] : data \in Payloads} :
           omit \in PatchOmits}

\* the two pops with defaults: a missing list is taken as empty
pop_with_default(validated_data) ==
    [ok |-> TRUE,
     data |-> [f \in DOMAIN validated_data \cup {"tags", "ingredients"} |->
                  IF f \in DOMAIN validated_data THEN validated_data[f]
                  ELSE <<>>]]

\* tags_data = validated_data.pop('tags');
\* ingredients_data = validated_data.pop('ingredientrecipe_set'):
\* a KeyError when the key is missing
pop(validated_data) ==
    [ok |-> {"tags", "ingredients"} \subseteq DOMAIN validated_data,
     data |-> validated_data]

RecipePartialUpdateRequest(pk, data) ==
    /\ tx.pc = "idle"
    /\ tx' = [pc |-> "received", op |-> "recipe_partial_update",
              method |-> "PATCH", recipe |-> pk, author |-> NoUser,
              data |-> data]
    /\ resp' = NoResponse
    /\ UNCHANGED <<recipes, recipe_tags, ingredient_recipe, OtherTables>>

\* PATCH /recipes/{pk}/: get_object, is_valid(raise_exception=True) on the
\* fields sent, then RecipeSerializer.update, whose pops raise KeyError
\* when the payload left the tags or the ingredients out
RecipePartialUpdate ==
    /\ tx.pc = "received"
    /\ tx.op = "recipe_partial_update"
    /\ IF tx.recipe \notin DOMAIN recipes
       THEN Reject(404, {"not_found"})
       ELSE IF ~is_valid(tx.data)
       THEN Reject(400, {"validation_error"})
       ELSE IF ~pop(tx.data).ok
       THEN Reject(500, {"KeyError"})
       ELSE /\ tx' = [pc |-> "update_row", op |-> tx.op,
                      method |-> tx.method, recipe |-> tx.recipe,
                      author |-> tx.author, data |-> pop(tx.data).data,
                      view |-> Committed, before |-> Committed]
            /\ UNCHANGED <<recipes, recipe_tags, ingredient_recipe, resp,
                           OtherTables>>

\* the recipe endpoints on a database with every tag and ingredient
InitRecipeApi ==
    /\ users = {1}
    /\ tags = TagIds
    /\ ingredients = IngredientIds
    /\ recipes = <<>>
    /\ recipe_tags = {}
    /\ ingredient_recipe = EmptyBag
    /\ favorite = EmptyBag
    /\ shopping_cart = EmptyBag
    /\ subscribe = EmptyBag
    /\ tx = IdleTx
    /\ reqs = [p \in Procs |-> IdleReq]
    /\ resp = NoResponse
    /\ ReferenceInit

NextRecipeApi ==
    \/ NextRecipe
    \/ \E pk \in RecipeIds :
          \E data \in IF tx.pc = "idle" THEN PatchPayloads ELSE {} :
              RecipePartialUpdateRequest(pk, data)
    \/ RecipePartialUpdate
    \/ \E pk \in RecipeIds : AllIdle /\ recipe_destroy(pk)

SpecRecipeApi == InitRecipeApi /\ [][NextRecipeApi]_vars

\* C14: after any sequence of create, PUT, PATCH (also without tags or
\* ingredients) and delete requests, every stored recipe has at least one
\* tag and one join row, cooking_time >= 1, every join row amount >= 1 and
\* at most one join row per (recipe, ingredient).
C14_StoredRecipesWellFormed ==
    \A r \in DOMAIN recipes :
        /\ TagsOf(Committed, r) # {}
        /\ \E row \in BagToSet(ingredient_recipe) : row.recipe = r
        /\ recipes[r].cooking_time >= 1
        /\ \A row \in BagToSet(ingredient_recipe) :
              row.recipe = r
                  => /\ row.amount >= 1
                     /\ Count(ingredient_recipe, row) = 1
                     /\ \A other \in BagToSet(ingredient_recipe) :
                            (other.recipe = r
                             /\ other.ingredient = row.ingredient)
                                => other = row

\* a PATCH without the tags was answered while the recipe is stored
C14_Witness ==
    /\ resp.op = "recipe_partial_update"
    /\ resp.status = 500
    /\ resp.detail = {"KeyError"}
    /\ resp.target \in DOMAIN recipes

\* C15: every remove request (favorite, shopping cart, unsubscribe) ends in
\* 204, having deleted the row, or in the 400 rejection (404 for a missing
\* recipe or user), under every interleaving: of two concurrent removes of
\* the same row that both pass the existence check, neither ends in an
\* unhandled error of the second lookup.
C15_RemoveEnds204Or400 ==
    (resp.method = "DELETE" /\ resp.op \in ToggleOps \cup {"subscribe"})
        => resp.status \in {204, 400, 404}

====
